---- MODULE Spec2Model ----
(***************************************************************************)
(* CatCurious: the cat Record Store (cat_curious/models/cat_model.py).     *)
(* The store is one table `cats`; every handler is a classmethod/function  *)
(* of the Cat model that runs one or two SQL statements against it.        *)
(* Every request runs in a worker of its own; one SQL statement is one     *)
(* atomic step.  delete_cat runs two statements (SELECT, then UPDATE), so  *)
(* it is two steps of a worker p in Procs and other requests may run in    *)
(* between; every other handler is a single statement, hence one step.     *)
(*                                                                         *)
(* The Credential Store (cat_curious/models/user_model.py) is one table    *)
(* `users`; its functions take the model class as cls, run one statement   *)
(* each and are one step each.  They are modelled as the operations of the *)
(* Users model that the routes and the tests call (Users.create_user,      *)
(* Users.check_password, ...), with cls._generate_hashed_password the      *)
(* module's generate_hashed_password and cls.query a SELECT on users.      *)
(*                                                                         *)
(* The account routes of app.py (login, update-password) call the          *)
(* Credential Store; the update-password route makes two store calls and   *)
(* is two steps.  get_affection_level (utils/cat_affection_utils.py) is a  *)
(* function of the reply of the breed-information API.                     *)
(* Spec: the Record Store; SpecUsers: the Credential Store; SpecRoutes:    *)
(* the account routes; SpecBoth: both stores over one database;            *)
(* SpecAffection: get_affection_level.                                     *)
(***************************************************************************)
EXTENDS Integers, FiniteSets, Sequences, TLC

\* ---------------------------------------------------------------- bounds
\* workers that may be inside delete_cat at the same time
NumProcs == 2

Procs == 1..NumProcs

\* inputs the requests are drawn from
Names == {"Mittens", "Tom"}
Breeds == {"beng", "cool"}
\* a Python value with its type: an int, or a str
int(n) == [int |-> n]
str(s) == [str |-> s]
isinstance(v, type) == type \in DOMAIN v

Ages == {int(-3), int(0), int(3), str("three")}
Weights == {int(-10), int(0), int(10), str("ten")}
\* names are unique, so at most Cardinality(Names) rows exist; one id more
\* is an id no row ever has
Ids == 1..(Cardinality(Names) + 1)

\* salts os.urandom may be asked for in one behaviour
MaxSalts == 3

\* inputs of the Credential Store requests
UserNames == {"alice", "bob", ""}
Passwords == {"x", "y", ""}

\* ------------------------------------------------------------ the schema
\* columns of table cats (sql/create_cat_table.sql)
Columns == {"id", "name", "breed", "age", "weight", "deleted"}

\* the row an INSERT of (name, breed, age, weight) stores: deleted defaults
\* to FALSE
NewRow(id, name, breed, age, weight) ==
    [id |-> id, name |-> name, breed |-> breed, age |-> age,
     weight |-> weight, deleted |-> FALSE]

\* UNIQUE constraint on cats.name
UniqueViolation(rows, name) == \E r \in rows : r.name = name

\* INTEGER PRIMARY KEY: the next rowid is one more than the largest
NextId(rows) ==
    IF rows = {} THEN 1
    ELSE (CHOOSE m \in {r.id : r \in rows} : \A r \in rows : r.id <= m) + 1

\* the table the create-table script leaves: dropped and recreated, no rows
create_cat_table == {}

\* -------------------------------------------------------------- Cat model
valid_breeds ==
    {"abys", "beng", "chau", "drex", "emau", "hbro", "java", "khao", "lape", "mala"}

NoCat == [id |-> 0, name |-> "", breed |-> "", age |-> int(0), weight |-> int(0)]

\* Cat(id=row[0], name=row[1], breed=row[2], age=row[3], weight=row[4])
Cat(row) ==
    [id |-> row.id, name |-> row.name, breed |-> row.breed, age |-> row.age,
     weight |-> row.weight]

NoRow == NewRow(0, "", "", int(0), int(0))

\* cursor.execute("SELECT ... FROM cats WHERE <col> = ?", (val,)); fetchone()
fetchone(rows, col, val) ==
    IF col \notin Columns
    THEN [status |-> "OperationalError", row |-> NoRow]
    ELSE LET m == {r \in rows : r[col] = val}
         IN  IF m = {}
             THEN [status |-> "None", row |-> NoRow]
             ELSE [status |-> "row", row |-> CHOOSE r \in m : TRUE]

\* v <= 0 raises TypeError: '<=' not supported between 'str' and 'int'
le_raises(v) == ~isinstance(v, "int")

\* validate without the breed check
validate_no_breed(breed, age, weight) ==
    IF le_raises(age) THEN "TypeError"
    ELSE IF age.int <= 0 \/ ~isinstance(age, "int") THEN "InvalidAge"
    ELSE IF le_raises(weight) THEN "TypeError"
    ELSE IF weight.int <= 0 \/ ~isinstance(weight, "int") THEN "InvalidWeight"
    ELSE "ok"

\* validate with "age < 0" in place of "age <= 0"
validate_age_nonneg(breed, age, weight) ==
    IF breed \notin valid_breeds THEN "InvalidBreed"
    ELSE IF le_raises(age) THEN "TypeError"
    ELSE IF age.int < 0 \/ ~isinstance(age, "int") THEN "InvalidAge"
    ELSE IF le_raises(weight) THEN "TypeError"
    ELSE IF weight.int <= 0 \/ ~isinstance(weight, "int") THEN "InvalidWeight"
    ELSE "ok"

\* the three checks at the head of create_cat, in order; in
\* "age <= 0 or not isinstance(age, (int, float))" the comparison is
\* evaluated first, and raises for a value that is not a number
validate(breed, age, weight) ==
    IF breed \notin valid_breeds THEN "InvalidBreed"
    ELSE IF le_raises(age) THEN "TypeError"
    ELSE IF age.int <= 0 \/ ~isinstance(age, "int") THEN "InvalidAge"
    ELSE IF le_raises(weight) THEN "TypeError"
    ELSE IF weight.int <= 0 \/ ~isinstance(weight, "int") THEN "InvalidWeight"
    ELSE "ok"

\* ------------------------------------------------------------- Users model
\* table users (id, username, salt, password): UNIQUE constraint on username
UserUniqueViolation(rows, username) == \E r \in rows : r.username = username

\* INTEGER PRIMARY KEY of users: the next rowid is one more than the largest
NextUserId(rows) ==
    IF rows = {} THEN 1
    ELSE (CHOOSE m \in {r.id : r \in rows} : \A r \in rows : r.id <= m) + 1

\* os.urandom(16).hex(): 16 random bytes as 32 hex characters; the n-th draw
\* is the n-th of these values, no two of them equal
urandom_hex(n) ==
    <<"3f9a1c0e5b7d28461f0a9c3e7b5d2846", "a41d7e02c9b6583fa41d7e02c9b6583f",
      "0b5e8c2f91d7a3640b5e8c2f91d7a364", "d2087f4ba6c1e935d2087f4ba6c1e935",
      "7c3e10a5f8b2d4697c3e10a5f8b2d469", "e6f1b94d0a37c852e6f1b94d0a37c852">>[n]

\* hashlib.sha256(m.encode()).hexdigest(): distinct messages, distinct digests
sha256(m) == "sha256(" \o m \o ")"

\* generate_hashed_password(password) with the salt the n-th draw gives
generate_hashed_password(password, n) ==
    LET salt == urandom_hex(n)
    IN  [salt |-> salt, hashed_password |-> sha256(password \o salt)]

NoUser == [id |-> 0, username |-> "", salt |-> "", password |-> ""]

\* cls.query.filter_by(username=username).first()
first_user(rows, username) ==
    LET m == {r \in rows : r.username = username}
    IN  IF m = {} THEN NoUser ELSE CHOOSE r \in m : TRUE

\* ------------------------------------------------------------------ state
VARIABLES
    cats,       \* the rows of table cats
    pc,         \* pc[p]: "idle", or "update" between delete_cat's two statements
    cat_id,     \* cat_id[p]: argument of p's delete_cat in flight (0 if none)
    ok_deletes, \* ok_deletes[i]: how many delete_cat(i) calls returned normally
                \* since the table was last recreated
    cleared,    \* the rows the last clear_cats removed; {} once a cat is created
    resp        \* the outcome of the call that returned last

cat_vars == <<cats, pc, cat_id, ok_deletes, cleared, resp>>

VARIABLES
    users,      \* the rows of table users
    salts_drawn,\* how many salts os.urandom has produced so far
    plain,      \* the pairs <<username, password>> the stored credentials were
                \* made from; never stored by the program
    uresp       \* the outcome of the Credential Store call that returned last

user_vars == <<users, salts_drawn, plain, uresp>>

VARIABLES
    route       \* the update-password request in flight between its two store
                \* calls (pc = "update"), or pc = "idle"

route_vars == <<route>>

VARIABLES
    aresp       \* the outcome of the get_affection_level call that returned last

api_vars == <<aresp>>

vars == <<cats, pc, cat_id, ok_deletes, cleared, resp, users, salts_drawn, plain, uresp,
          route, aresp>>

\* no request made to the breed-information API yet
NoReply == [exc |-> "", ok |-> FALSE, data |-> <<>>]

NoRequest == [pc |-> "idle", username |-> "", old_password |-> "", new_password |-> ""]

\* outcome of a Credential Store call: the error kind or "ok", with the value
\* returned (ok: check_password's bool, id: get_id_by_username's id)
UResponse(op, username, password, kind, ok, id) ==
    [op |-> op, username |-> username, password |-> password, kind |-> kind,
     ok |-> ok, id |-> id]

Response(op, id, name, kind, cat) ==
    [op |-> op, id |-> id, name |-> name, kind |-> kind, cat |-> cat]

Init ==
    /\ cats = {}
    /\ pc = [p \in Procs |-> "idle"]
    /\ cat_id = [p \in Procs |-> 0]
    /\ ok_deletes = [i \in Ids |-> 0]
    /\ cleared = {}
    /\ resp = Response("none", 0, "", "ok", NoCat)
    /\ users = {}
    /\ salts_drawn = 0
    /\ plain = {}
    /\ uresp = UResponse("none", "", "", "ok", FALSE, 0)
    /\ route = NoRequest
    /\ aresp = [breed |-> "", reply |-> NoReply, kind |-> "none", message |-> "",
                affection_level |-> 0]

\* ---------------------------------------------------------------- actions
\* create_cat without the "except IntegrityError" clause: the storage error
\* reaches the caller as it is
create_cat_untranslated(name, breed, age, weight) ==
    /\ LET v == validate(breed, age, weight)
           args == [id |-> 0, name |-> name, breed |-> breed, age |-> age,
                    weight |-> weight]
       IN  IF v # "ok"
           THEN /\ resp' = Response("create_cat", 0, name, v, args)
                /\ UNCHANGED <<cats, cleared>>
           ELSE IF UniqueViolation(cats, name)
           THEN /\ resp' = Response("create_cat", 0, name, "IntegrityError", args)
                /\ UNCHANGED <<cats, cleared>>
           ELSE /\ cleared' = {}
                /\ cats' = cats \cup {NewRow(NextId(cats), name, breed, age, weight)}
                /\ resp' = Response("create_cat", 0, name, "ok", args)
    /\ UNCHANGED <<pc, cat_id, ok_deletes>>
    /\ UNCHANGED <<user_vars, route_vars, api_vars>>

\* create_cat building the row as cls(name, breed, weight, age)
create_cat_swapped(name, breed, age, weight) ==
    /\ LET v == validate(breed, age, weight)
           args == [id |-> 0, name |-> name, breed |-> breed, age |-> age,
                    weight |-> weight]
       IN  IF v # "ok"
           THEN /\ resp' = Response("create_cat", 0, name, v, args)
                /\ UNCHANGED <<cats, cleared>>
           ELSE IF UniqueViolation(cats, name)
           THEN /\ resp' = Response("create_cat", 0, name, "DuplicateName", args)
                /\ UNCHANGED <<cats, cleared>>
           ELSE /\ cleared' = {}
                /\ cats' = cats \cup {NewRow(NextId(cats), name, breed, weight, age)}
                /\ resp' = Response("create_cat", 0, name, "ok", args)
    /\ UNCHANGED <<pc, cat_id, ok_deletes>>
    /\ UNCHANGED <<user_vars, route_vars, api_vars>>

create_cat(name, breed, age, weight) ==
    /\ LET v == validate(breed, age, weight)
           args == [id |-> 0, name |-> name, breed |-> breed, age |-> age,
                    weight |-> weight]
       IN  IF v # "ok"
           THEN /\ resp' = Response("create_cat", 0, name, v, args)
                /\ UNCHANGED <<cats, cleared>>
           ELSE IF UniqueViolation(cats, name)
           THEN \* IntegrityError: rollback, ValueError "already exists"
                /\ resp' = Response("create_cat", 0, name, "DuplicateName", args)
                /\ UNCHANGED <<cats, cleared>>
           ELSE /\ cleared' = {}
                /\ cats' = cats \cup {NewRow(NextId(cats), name, breed, age, weight)}
                /\ resp' = Response("create_cat", 0, name, "ok", args)
    /\ UNCHANGED <<pc, cat_id, ok_deletes>>
    /\ UNCHANGED <<user_vars, route_vars, api_vars>>

\* clear_cats with a script that recreates every table of the database
clear_cats_every_table ==
    /\ cats' = create_cat_table
    /\ cleared' = cats
    /\ ok_deletes' = [i \in Ids |-> 0]
    /\ resp' = Response("clear_cats", 0, "", "ok", NoCat)
    /\ users' = {}
    /\ plain' = {}
    /\ UNCHANGED <<pc, cat_id, salts_drawn, uresp, route, aresp>>

\* clear_cats: runs the create-table script, which drops and recreates cats
clear_cats ==
    /\ cats' = create_cat_table
    /\ cleared' = cats
    /\ ok_deletes' = [i \in Ids |-> 0]
    /\ resp' = Response("clear_cats", 0, "", "ok", NoCat)
    /\ UNCHANGED <<pc, cat_id>>
    /\ UNCHANGED <<user_vars, route_vars, api_vars>>

\* delete_check without the test of the deleted flag
delete_check_no_flag(rows, id) ==
    LET f == fetchone(rows, "id", id)
    IN  IF f.status = "None" THEN "NotFound" ELSE "ok"

\* delete_cat, lines 111-119: SELECT deleted FROM cats WHERE id = ?, then the
\* outcome of the try block around fetchone()[0]
delete_check(rows, id) ==
    LET f == fetchone(rows, "id", id)
    IN  IF f.status = "None" THEN "NotFound"          \* None[0]: TypeError
        ELSE IF f.row.deleted THEN "AlreadyDeleted"
        ELSE "ok"

\* "DELETE FROM cats WHERE id = ?" in place of the UPDATE
soft_delete_removes(rows, id) == {r \in rows : r.id # id}

\* "SET deleted = NOT deleted" in place of "SET deleted = TRUE"
soft_delete_toggle(rows, id) ==
    {IF r.id = id THEN [r EXCEPT !.deleted = ~r.deleted] ELSE r : r \in rows}

\* the UPDATE without its WHERE clause: every row is flagged
soft_delete_all(rows, id) == {[r EXCEPT !.deleted = TRUE] : r \in rows}

\* delete_cat, line 121: UPDATE cats SET deleted = TRUE WHERE id = ?
soft_delete(rows, id) ==
    {IF r.id = id THEN [r EXCEPT !.deleted = TRUE] ELSE r : r \in rows}

\* first statement of delete_cat: the SELECT and the checks on its result
delete_cat_select(p, id) ==
    /\ pc[p] = "idle"
    /\ LET c == delete_check(cats, id)
       IN  IF c = "ok"
           THEN /\ pc' = [pc EXCEPT ![p] = "update"]
                /\ cat_id' = [cat_id EXCEPT ![p] = id]
                /\ UNCHANGED resp
           ELSE /\ resp' = Response("delete_cat", id, "", c, NoCat)
                /\ UNCHANGED <<pc, cat_id>>
    /\ UNCHANGED <<cats, ok_deletes, cleared>>
    /\ UNCHANGED <<user_vars, route_vars, api_vars>>

\* second statement of delete_cat: the UPDATE, commit, normal return
delete_cat_update(p) ==
    /\ pc[p] = "update"
    /\ cats' = soft_delete(cats, cat_id[p])
    /\ ok_deletes' = [ok_deletes EXCEPT ![cat_id[p]] = @ + 1]
    /\ resp' = Response("delete_cat", cat_id[p], "", "ok", NoCat)
    /\ pc' = [pc EXCEPT ![p] = "idle"]
    /\ cat_id' = [cat_id EXCEPT ![p] = 0]
    /\ UNCHANGED cleared
    /\ UNCHANGED <<user_vars, route_vars, api_vars>>

\* lookup_result without the test of row[5]
lookup_result_ignores_deleted(f) ==
    IF f.status = "OperationalError" THEN [kind |-> "OperationalError", cat |-> NoCat]
    ELSE IF f.status = "row" THEN [kind |-> "ok", cat |-> Cat(f.row)]
    ELSE [kind |-> "NotFound", cat |-> NoCat]

\* get_cat_by_id, lines 147-157: outcome of the lookup on the fetched row
lookup_result(f) ==
    IF f.status = "OperationalError" THEN [kind |-> "OperationalError", cat |-> NoCat]
    ELSE IF f.status = "row"
    THEN IF f.row.deleted
         THEN [kind |-> "Deleted", cat |-> NoCat]
         ELSE [kind |-> "ok", cat |-> Cat(f.row)]
    ELSE [kind |-> "NotFound", cat |-> NoCat]

get_cat_by_id(id) ==
    /\ LET r == lookup_result(fetchone(cats, "id", id))
       IN  resp' = Response("get_cat_by_id", id, "", r.kind, r.cat)
    /\ UNCHANGED <<cats, pc, cat_id, ok_deletes, cleared>>
    /\ UNCHANGED <<user_vars, route_vars, api_vars>>

\* get_cat_by_name: the query is "... FROM cats WHERE cat = ?"
get_cat_by_name(cat_name) ==
    /\ LET r == lookup_result(fetchone(cats, "cat", cat_name))
       IN  resp' = Response("get_cat_by_name", 0, cat_name, r.kind, r.cat)
    /\ UNCHANGED <<cats, pc, cat_id, ok_deletes, cleared>>
    /\ UNCHANGED <<user_vars, route_vars, api_vars>>

Next ==
    \/ \E name \in Names, breed \in Breeds, age \in Ages, weight \in Weights :
           create_cat(name, breed, age, weight)
    \/ clear_cats
    \/ \E p \in Procs, id \in Ids : delete_cat_select(p, id)
    \/ \E p \in Procs : delete_cat_update(p)
    \/ \E id \in Ids : get_cat_by_id(id)
    \/ \E name \in Names : get_cat_by_name(name)

Spec == Init /\ [][Next]_vars

\* ------------------------------------------------ Credential Store actions
\* "INSERT OR REPLACE": an existing row of the username gets the new credentials
insert_user_replaces(rows, username, password, n) ==
    LET g == generate_hashed_password(password, n)
        old == first_user(rows, username)
    IN  [kind |-> "ok",
         rows |-> {r \in rows : r.username # username} \cup
                  {[id |-> IF old = NoUser THEN NextUserId(rows) ELSE old.id,
                    username |-> username,
                    salt |-> g.salt, password |-> g.hashed_password]}]

\* create_user, lines 49-61: the INSERT of (username, salt, hashed_password);
\* an IntegrityError becomes the "already exists" ValueError
insert_user(rows, username, password, n) ==
    LET g == generate_hashed_password(password, n)
    IN  IF UserUniqueViolation(rows, username)
        THEN [kind |-> "DuplicateUsername", rows |-> rows]
        ELSE [kind |-> "ok",
              rows |-> rows \cup {[id |-> NextUserId(rows), username |-> username,
                                   salt |-> g.salt, password |-> g.hashed_password]}]

create_user(username, password) ==
    /\ salts_drawn < MaxSalts
    /\ salts_drawn' = salts_drawn + 1
    /\ LET r == insert_user(users, username, password, salts_drawn + 1)
       IN  /\ users' = r.rows
           /\ plain' = IF r.kind = "ok" THEN plain \cup {<<username, password>>} ELSE plain
           /\ uresp' = UResponse("create_user", username, password, r.kind, FALSE, 0)
    /\ UNCHANGED <<cat_vars, route_vars, api_vars>>

\* verify hashing salt + password, the reverse of the order used on write
verify_salt_first(rows, username, password) ==
    LET user == first_user(rows, username)
    IN  IF user = NoUser
        THEN [kind |-> "UserNotFound", ok |-> FALSE]
        ELSE [kind |-> "ok", ok |-> sha256(user.salt \o password) = user.password]

\* verify returning False for a user that does not exist
verify_missing_false(rows, username, password) ==
    LET user == first_user(rows, username)
    IN  [kind |-> "ok",
         ok |-> user # NoUser /\ sha256(password \o user.salt) = user.password]

\* check_password, lines 81-86
verify(rows, username, password) ==
    LET user == first_user(rows, username)
    IN  IF user = NoUser
        THEN [kind |-> "UserNotFound", ok |-> FALSE]
        ELSE [kind |-> "ok", ok |-> sha256(password \o user.salt) = user.password]

\* check_password that stores the verified password under another salt
check_password_rehash(username, password) ==
    /\ LET r == verify(users, username, password)
           g == generate_hashed_password(password, MaxSalts)
       IN  /\ uresp' = UResponse("check_password", username, password, r.kind, r.ok, 0)
           /\ users' = IF r.ok
                       THEN {IF q.username = username
                             THEN [q EXCEPT !.salt = g.salt, !.password = g.hashed_password]
                             ELSE q : q \in users}
                       ELSE users
    /\ UNCHANGED <<salts_drawn, plain>>
    /\ UNCHANGED <<cat_vars, route_vars, api_vars>>

check_password(username, password) ==
    /\ LET r == verify(users, username, password)
       IN  uresp' = UResponse("check_password", username, password, r.kind, r.ok, 0)
    /\ UNCHANGED <<users, salts_drawn, plain>>
    /\ UNCHANGED <<cat_vars, route_vars, api_vars>>

\* the DELETE is not committed: the call returns normally, the row stays
delete_rows_uncommitted(rows, username) ==
    IF \E r \in rows : r.username = username
    THEN [kind |-> "ok", rows |-> rows]
    ELSE [kind |-> "UserNotFound", rows |-> rows]

\* delete_user, lines 102-106: DELETE FROM users WHERE username = ?; rowcount
delete_rows(rows, username) ==
    LET kept == {r \in rows : r.username # username}
    IN  IF kept = rows
        THEN [kind |-> "UserNotFound", rows |-> rows]
        ELSE [kind |-> "ok", rows |-> kept]

delete_user(username) ==
    /\ LET r == delete_rows(users, username)
       IN  /\ users' = r.rows
           /\ plain' = IF r.kind = "ok"
                       THEN {x \in plain : x[1] # username} ELSE plain
           /\ uresp' = UResponse("delete_user", username, "", r.kind, FALSE, 0)
    /\ UNCHANGED salts_drawn
    /\ UNCHANGED <<cat_vars, route_vars, api_vars>>

\* the lookup without its filter: the id of the first row of the table
id_of_any(rows, username) ==
    IF rows = {}
    THEN [kind |-> "UserNotFound", id |-> 0]
    ELSE [kind |-> "ok",
          id |-> (CHOOSE r \in rows : \A q \in rows : r.id <= q.id).id]

\* get_id_by_username, lines 126-130
id_of(rows, username) ==
    LET user == first_user(rows, username)
    IN  IF user = NoUser
        THEN [kind |-> "UserNotFound", id |-> 0]
        ELSE [kind |-> "ok", id |-> user.id]

get_id_by_username(username) ==
    /\ LET r == id_of(users, username)
       IN  uresp' = UResponse("get_id_by_username", username, "", r.kind, FALSE, r.id)
    /\ UNCHANGED <<users, salts_drawn, plain>>
    /\ UNCHANGED <<cat_vars, route_vars, api_vars>>

\* the UPDATE sets the password column only: the old salt stays
update_rows_keeps_salt(rows, username, new_password, n) ==
    LET g == generate_hashed_password(new_password, n)
        hit == {r \in rows : r.username = username}
    IN  IF hit = {}
        THEN [kind |-> "UserNotFound", rows |-> rows]
        ELSE [kind |-> "ok",
              rows |-> {IF r \in hit
                        THEN [r EXCEPT !.password = g.hashed_password]
                        ELSE r : r \in rows}]

\* the UPDATE sets the salt column only: the old hash stays
update_rows_salt_only(rows, username, new_password, n) ==
    LET g == generate_hashed_password(new_password, n)
        hit == {r \in rows : r.username = username}
    IN  IF hit = {}
        THEN [kind |-> "UserNotFound", rows |-> rows]
        ELSE [kind |-> "ok",
              rows |-> {IF r \in hit THEN [r EXCEPT !.salt = g.salt] ELSE r : r \in rows}]

\* the UPDATE without the rowcount check: no row hit is not an error
update_rows_no_rowcount(rows, username, new_password, n) ==
    LET g == generate_hashed_password(new_password, n)
    IN  [kind |-> "ok",
         rows |-> {IF r.username = username
                   THEN [r EXCEPT !.salt = g.salt, !.password = g.hashed_password]
                   ELSE r : r \in rows}]

\* update_password, lines 144-154: UPDATE users SET salt = ?, password = ?
\* WHERE username = ?; rowcount
update_rows(rows, username, new_password, n) ==
    LET g == generate_hashed_password(new_password, n)
        hit == {r \in rows : r.username = username}
    IN  IF hit = {}
        THEN [kind |-> "UserNotFound", rows |-> rows]
        ELSE [kind |-> "ok",
              rows |-> {IF r \in hit
                        THEN [r EXCEPT !.salt = g.salt, !.password = g.hashed_password]
                        ELSE r : r \in rows}]

update_password(username, new_password) ==
    /\ salts_drawn < MaxSalts
    /\ salts_drawn' = salts_drawn + 1
    /\ LET r == update_rows(users, username, new_password, salts_drawn + 1)
       IN  /\ users' = r.rows
           /\ plain' = IF r.kind = "ok"
                       THEN {x \in plain : x[1] # username} \cup {<<username, new_password>>}
                       ELSE plain
           /\ uresp' = UResponse("update_password", username, new_password, r.kind, FALSE, 0)
    /\ UNCHANGED <<cat_vars, route_vars, api_vars>>

\* route /api/create-account (app.py): both fields required, else 400; then
\* the account is created through the store, 201, or 500 on any exception
create_account(username, password) ==
    /\ IF username = "" \/ password = ""
       THEN /\ uresp' = UResponse("create_account", username, password, "400", FALSE, 0)
            /\ UNCHANGED <<users, salts_drawn, plain>>
       ELSE /\ salts_drawn < MaxSalts
            /\ salts_drawn' = salts_drawn + 1
            /\ LET r == insert_user(users, username, password, salts_drawn + 1)
               IN  /\ users' = r.rows
                   /\ plain' = IF r.kind = "ok"
                               THEN plain \cup {<<username, password>>} ELSE plain
                   /\ uresp' = UResponse("create_account", username, password,
                                         IF r.kind = "ok" THEN "201" ELSE "500", FALSE, 0)
    /\ UNCHANGED <<cat_vars, route_vars, api_vars>>

UNext ==
    \/ \E username \in UserNames, password \in Passwords :
           create_user(username, password)
    \/ \E username \in UserNames, password \in Passwords :
           check_password(username, password)
    \/ \E username \in UserNames : delete_user(username)
    \/ \E username \in UserNames : get_id_by_username(username)
    \/ \E username \in UserNames, password \in Passwords :
           update_password(username, password)
    \/ \E username \in UserNames, password \in Passwords :
           create_account(username, password)

SpecUsers == Init /\ [][UNext]_vars


\* ---------------------------------------------------------- account routes
\* route /api/login, lines 129-150: the status code answered.  complete:
\* the payload has both fields
login_status(rows, complete, username, password) ==
    IF ~complete THEN "400"
    ELSE LET v == verify(rows, username, password)
         IN  IF v.kind # "ok" THEN "500"       \* ValueError: except Exception
             ELSE IF ~v.ok THEN "401"          \* Unauthorized
             ELSE "200"

login(complete, username, password) ==
    /\ uresp' = IF complete
                THEN UResponse("login", username, password,
                               login_status(users, complete, username, password),
                               FALSE, 0)
                ELSE UResponse("login", "", "", "400", FALSE, 0)
    /\ UNCHANGED <<users, salts_drawn, plain, route>>
    /\ UNCHANGED <<cat_vars, api_vars>>

\* the route without the test of check_password's result
old_password_status_unchecked(rows, username, old_password, new_password) ==
    IF username = "" \/ old_password = "" \/ new_password = "" THEN "400"
    ELSE LET v == verify(rows, username, old_password)
         IN  IF v.kind # "ok" THEN "500" ELSE "ok"

\* route /api/update-password, lines 157-167: the fields, then
\* Users.check_password(username, old_password)
old_password_status(rows, username, old_password, new_password) ==
    IF username = "" \/ old_password = "" \/ new_password = "" THEN "400"
    ELSE LET v == verify(rows, username, old_password)
         IN  IF v.kind # "ok" THEN "500"
             ELSE IF ~v.ok THEN "401"
             ELSE "ok"

\* first store call of the route: the old password is verified
update_password_check(username, old_password, new_password) ==
    /\ route.pc = "idle"
    /\ LET c == old_password_status(users, username, old_password, new_password)
       IN  IF c = "ok"
           THEN /\ route' = [pc |-> "update", username |-> username,
                             old_password |-> old_password,
                             new_password |-> new_password]
                /\ UNCHANGED uresp
           ELSE /\ uresp' = UResponse("update_password_route", username,
                                      old_password, c, FALSE, 0)
                /\ UNCHANGED route
    /\ UNCHANGED <<users, salts_drawn, plain>>
    /\ UNCHANGED <<cat_vars, api_vars>>

\* second store call of the route, lines 169-176:
\* Users.update_password(username, new_password), then 200, or 500 on an error
update_password_persist ==
    /\ route.pc = "update"
    /\ salts_drawn < MaxSalts
    /\ salts_drawn' = salts_drawn + 1
    /\ LET r == update_rows(users, route.username, route.new_password, salts_drawn + 1)
       IN  /\ users' = r.rows
           /\ plain' = IF r.kind = "ok"
                       THEN {x \in plain : x[1] # route.username}
                                \cup {<<route.username, route.new_password>>}
                       ELSE plain
           /\ uresp' = UResponse("update_password_route", route.username,
                                 route.new_password,
                                 IF r.kind = "ok" THEN "200" ELSE "500", FALSE, 0)
    /\ route' = NoRequest
    /\ UNCHANGED <<cat_vars, api_vars>>

\* the routes, with the store calls that write users made beside them
RNext ==
    \/ \E username \in UserNames, password \in Passwords :
           create_user(username, password)
    \/ \E username \in UserNames : delete_user(username)
    \/ \E username \in UserNames, password \in Passwords :
           update_password(username, password)
    \/ \E complete \in BOOLEAN, username \in UserNames, password \in Passwords :
           login(complete, username, password)
    \/ \E username \in UserNames, old_password \in Passwords, new_password \in Passwords :
           update_password_check(username, old_password, new_password)
    \/ update_password_persist

SpecRoutes == Init /\ [][RNext]_vars

\* ------------------------------------------------- both stores together
\* requests to the Record Store and to the Credential Store in one
\* application, over one database: every operation of the two models, with
\* one valid cat per name, one worker in delete_cat and one username
BNext ==
    \/ \E name \in Names : create_cat(name, "beng", int(3), int(10))
    \/ clear_cats
    \/ \E id \in Ids : delete_cat_select(1, id)
    \/ delete_cat_update(1)
    \/ \E id \in Ids : get_cat_by_id(id)
    \/ \E name \in {"Tom"} : get_cat_by_name(name)
    \/ \E password \in {"x"} : create_user("alice", password)
    \/ \E password \in {"x", "y"} : check_password("alice", password)
    \/ delete_user("alice")
    \/ get_id_by_username("alice")
    \/ \E password \in {"y"} : update_password("alice", password)

SpecBoth == Init /\ [][BNext]_vars

\* ------------------------------------------------- breed-information API
\* what requests.get(url, timeout=5) gives: an exception of requests, or a
\* response with a status and a JSON body that is a list of image objects;
\* an image object may have a "breeds" list, here of affection levels
Raised(exc) == [exc |-> exc, ok |-> FALSE, data |-> <<>>]
Replied(ok, data) == [exc |-> "", ok |-> ok, data |-> data]
Image(has_breeds, breeds) == [has_breeds |-> has_breeds, breeds |-> breeds]

AffectionLevels == 1..5

Replies ==
    {Raised("Timeout"), Raised("ConnectionError")}
        \cup {Replied(FALSE, <<>>)}
        \cup {Replied(TRUE, <<>>), Replied(TRUE, <<Image(FALSE, <<>>)>>),
              Replied(TRUE, <<Image(TRUE, <<>>)>>)}
        \cup {Replied(TRUE, <<Image(TRUE, <<n>>)>>) : n \in AffectionLevels}

\* the exception classes of requests: Timeout and HTTPError are
\* RequestExceptions
is_a(exc, class) ==
    exc = class \/ (class = "RequestException"
                    /\ exc \in {"Timeout", "ConnectionError", "HTTPError"})

\* lines 28-29: requests.get raises, or raise_for_status raises HTTPError
\* for an unsuccessful status
raised_by_request(reply) ==
    IF reply.exc # "" THEN reply.exc
    ELSE IF ~reply.ok THEN "HTTPError"
    ELSE ""

\* get_affection_level with the two except clauses in the other order
affection_outcome_generic_first(reply) ==
    LET exc == raised_by_request(reply)
        data == reply.data
    IN  IF exc # ""
        THEN IF is_a(exc, "RequestException")
             THEN [kind |-> "RuntimeError", message |-> "Request to TheCatAPI failed: " \o exc,
                   affection_level |-> 0]
             ELSE [kind |-> "RuntimeError",
                   message |-> "Request to TheCatAPI timed out.", affection_level |-> 0]
        ELSE IF data # <<>> /\ data[1].has_breeds /\ data[1].breeds # <<>>
        THEN [kind |-> "ok", message |-> "", affection_level |-> data[1].breeds[1]]
        ELSE [kind |-> "RuntimeError",
              message |-> "No breed information received from API.",
              affection_level |-> 0]

\* get_affection_level, lines 28-45: the value returned or the error raised
affection_outcome(reply) ==
    LET exc == raised_by_request(reply)
        data == reply.data
    IN  IF exc # ""
        THEN IF is_a(exc, "Timeout")
             THEN [kind |-> "RuntimeError",
                   message |-> "Request to TheCatAPI timed out.", affection_level |-> 0]
             ELSE IF is_a(exc, "RequestException")
             THEN [kind |-> "RuntimeError", message |-> "Request to TheCatAPI failed: " \o exc,
                   affection_level |-> 0]
             ELSE [kind |-> exc, message |-> "", affection_level |-> 0]
        ELSE IF data # <<>> /\ data[1].has_breeds /\ data[1].breeds # <<>>
        THEN [kind |-> "ok", message |-> "", affection_level |-> data[1].breeds[1]]
        ELSE [kind |-> "RuntimeError",
              message |-> "No breed information received from API.",
              affection_level |-> 0]

get_affection_level(breed, reply) ==
    /\ LET r == affection_outcome(reply)
       IN  aresp' = [breed |-> breed, reply |-> reply, kind |-> r.kind,
                     message |-> r.message, affection_level |-> r.affection_level]
    /\ UNCHANGED <<cat_vars, user_vars, route_vars>>

ANext == \E breed \in valid_breeds, reply \in Replies : get_affection_level(breed, reply)

SpecAffection == Init /\ [][ANext]_vars

TypeOK ==
    /\ \A r \in cats : r.id \in Ids /\ r.name \in Names /\ r.deleted \in BOOLEAN
    /\ pc \in [Procs -> {"idle", "update"}]
    /\ cat_id \in [Procs -> Ids \cup {0}]
\* ------------------------------------------------------------- properties
\* steps of delete_cat, read off the worker's position
Proceeds(p) == pc[p] = "idle" /\ pc'[p] = "update"
Returns(p) == pc[p] = "update" /\ pc'[p] = "idle"
\* a call that returned in this step (resp records it)
Returned(op) == resp' # resp /\ resp'.op = op

HasRow(rows, id) == \E r \in rows : r.id = id
IsDeleted(rows, id) == \E r \in rows : r.id = id /\ r.deleted
IsActive(rows, id) == \E r \in rows : r.id = id /\ ~r.deleted

\* C1: delete_cat(id) has three outcomes, decided by the row the SELECT finds
\* when the call is made: no row: "not found"; row with deleted = TRUE: "has
\* been deleted" (another kind); row with deleted = FALSE: the call goes on to
\* the UPDATE, which sets deleted = TRUE and returns normally.  An id without
\* a row never gets "has been deleted".
C1_DeleteThreeOutcomes ==
    [][ /\ \A p \in Procs :
              /\ Proceeds(p) => IsActive(cats, cat_id'[p])
              /\ Returns(p) =>
                    /\ resp' = Response("delete_cat", cat_id[p], "", "ok", NoCat)
                    /\ \A r \in cats' : r.id = cat_id[p] => r.deleted
        /\ (Returned("delete_cat") /\ pc' = pc) =>
              /\ resp'.kind \in {"NotFound", "AlreadyDeleted"}
              /\ resp'.kind = "NotFound" <=> ~HasRow(cats, resp'.id)
              /\ resp'.kind = "AlreadyDeleted" <=> IsDeleted(cats, resp'.id)
              /\ cats' = cats
      ]_vars

C1_Witness ==
    /\ resp.op = "delete_cat" /\ resp.kind = "AlreadyDeleted"
    /\ IsDeleted(cats, resp.id)
    /\ ok_deletes[resp.id] = 1

\* C2: of the delete_cat(id) calls that run concurrently on a row, at most
\* one returns normally.
C2_AtMostOneDeleteSucceeds == \A i \in Ids : ok_deletes[i] <= 1

\* C3: get_cat_by_id(id) returns a cat only if the row with that id exists
\* with deleted = FALSE (and returns that row's fields); it fails "not found"
\* exactly when no row exists and "has been deleted" exactly when the row
\* exists with deleted = TRUE.
C3_GetByIdOutcome ==
    resp.op = "get_cat_by_id" =>
        /\ resp.kind \in {"ok", "NotFound", "Deleted"}
        /\ resp.kind = "ok" <=> IsActive(cats, resp.id)
        /\ resp.kind = "ok" =>
              \E r \in cats : r.id = resp.id /\ ~r.deleted /\ resp.cat = Cat(r)
        /\ resp.kind = "NotFound" <=> ~HasRow(cats, resp.id)
        /\ resp.kind = "Deleted" <=> IsDeleted(cats, resp.id)

C3_Witness ==
    resp.op = "get_cat_by_id" /\ resp.kind = "Deleted" /\ IsDeleted(cats, resp.id)

\* C4: get_cat_by_name(name) returns the cat whose name is the argument when
\* that row has deleted = FALSE, fails "has been deleted" when it has
\* deleted = TRUE and "not found" when no row has that name.
C4_GetByNameOutcome ==
    resp.op = "get_cat_by_name" =>
        /\ resp.kind \in {"ok", "NotFound", "Deleted"}
        /\ resp.kind = "ok" <=>
              \E r \in cats : r.name = resp.name /\ ~r.deleted /\ resp.cat = Cat(r)
        /\ resp.kind = "NotFound" <=> ~\E r \in cats : r.name = resp.name
        /\ resp.kind = "Deleted" <=> \E r \in cats : r.name = resp.name /\ r.deleted
\* C5: a created cat is an active row: get_cat_by_id of its id returns it,
\* and the row stays active until a delete_cat on that id returns normally
\* (or clear_cats runs).  Once the flag is set, every get_cat_by_id made on
\* that id fails "has been deleted" and every delete_cat made on it fails
\* "has been deleted", neither reaching the UPDATE, until clear_cats.
C5_CatLifecycle ==
    [][ /\ (Returned("create_cat") /\ resp'.kind = "ok") =>
              \E r \in cats' \ cats :
                  /\ ~r.deleted
                  /\ Cat(r) = [resp'.cat EXCEPT !.id = r.id]
        /\ \A r \in cats :
              /\ (~r.deleted /\ r \notin cats') =>
                    \/ Returned("clear_cats")
                    \/ /\ resp' = Response("delete_cat", r.id, "", "ok", NoCat)
                       /\ \E p \in Procs : Returns(p) /\ cat_id[p] = r.id
                       /\ [r EXCEPT !.deleted = TRUE] \in cats'
              /\ (Returned("get_cat_by_id") /\ resp'.id = r.id) =>
                    IF r.deleted
                    THEN resp'.kind = "Deleted"
                    ELSE resp'.kind = "ok" /\ resp'.cat = Cat(r)
              /\ r.deleted =>
                    /\ \A p \in Procs : ~(Proceeds(p) /\ cat_id'[p] = r.id)
                    /\ (Returned("delete_cat") /\ resp'.id = r.id /\ pc' = pc) =>
                          resp'.kind = "AlreadyDeleted"
                    /\ r \in cats' \/ Returned("clear_cats")
        /\ \A p \in Procs : Returns(p) => ~IsActive(cats', cat_id[p])
      ]_vars

C5_Witness ==
    /\ resp.op = "get_cat_by_id" /\ resp.kind = "Deleted"
    /\ ok_deletes[resp.id] = 1
    /\ \E r \in cats : r.id # resp.id /\ ~r.deleted

\* C6: the deleted flag of a row only moves from FALSE to TRUE: a row with
\* deleted = TRUE is the same row after every step, except that clear_cats
\* removes every row.
C6_DeletedIsOneWay ==
    [][ \A r \in cats :
            r.deleted => \/ r \in cats'
                         \/ (Returned("clear_cats") /\ cats' = {})
      ]_vars

C6_Witness ==
    /\ \E r \in cats : r.deleted /\ ok_deletes[r.id] = 2
    /\ resp.op = "delete_cat" /\ resp.kind = "ok"

\* C7: after clear_cats, and until a cat is created, get_cat_by_id and
\* get_cat_by_name of every id and name the cleared table held fail
\* "not found".
C7_ClearedLookupsNotFound ==
    /\ (resp.op = "get_cat_by_id" /\ \E r \in cleared : r.id = resp.id) =>
          resp.kind = "NotFound"
    /\ (resp.op = "get_cat_by_name" /\ \E r \in cleared : r.name = resp.name) =>
          resp.kind = "NotFound"

\* the last call's age and weight are numbers
NumericArgs == isinstance(resp.cat.age, "int") /\ isinstance(resp.cat.weight, "int")

\* C8: create_cat with a breed outside valid_breeds fails with the invalid
\* breed error, whatever the name, age and weight, and the rows of cats are
\* the same after the call as before it.
C8_InvalidBreedWritesNothing ==
    [][ (Returned("create_cat") /\ resp'.cat.breed \notin valid_breeds) =>
            (resp'.kind = "InvalidBreed" /\ cats' = cats)
      ]_vars

C8_Witness ==
    /\ resp.op = "create_cat" /\ resp.kind = "InvalidBreed"
    /\ NumericArgs /\ resp.cat.age.int > 0 /\ resp.cat.weight.int > 0
    /\ cats # {}

\* what the last create_cat did, when its breed was valid
CreatedRow ==
    \E r \in cats : Cat(r) = [resp.cat EXCEPT !.id = r.id] /\ ~r.deleted

\* C9 as claimed: with a valid breed and numbers for age and weight,
\* age >= 0 and weight > 0 are accepted (age = 0 creates a row when the name is unused), age < 0 fails with the
\* invalid age error and weight <= 0 with the invalid weight error.
C9_AgeZeroAccepted ==
    (resp.op = "create_cat" /\ resp.cat.breed \in valid_breeds /\ NumericArgs) =>
        /\ (resp.cat.age.int >= 0 /\ resp.cat.weight.int > 0) =>
              /\ resp.kind \in {"ok", "DuplicateName"}
              /\ resp.kind = "ok" => CreatedRow
        /\ resp.cat.age.int < 0 => resp.kind = "InvalidAge"
        /\ (resp.cat.age.int >= 0 /\ resp.cat.weight.int <= 0) => resp.kind = "InvalidWeight"

\* C9 amended: with a valid breed and numbers for age and weight,
\* create_cat accepts the age exactly when age > 0 and the weight exactly when weight > 0: age <= 0 (age = 0 too)
\* fails with the invalid age error, age > 0 with weight <= 0 fails with the
\* invalid weight error, and age > 0 with weight > 0 and an unused name
\* creates the row.
C9_PositiveAgeAndWeight ==
    (resp.op = "create_cat" /\ resp.cat.breed \in valid_breeds /\ NumericArgs) =>
        /\ (resp.cat.age.int > 0 /\ resp.cat.weight.int > 0) =>
              /\ resp.kind \in {"ok", "DuplicateName"}
              /\ resp.kind = "ok" => CreatedRow
              /\ resp.kind = "DuplicateName" => \E r \in cats : r.name = resp.name
        /\ resp.cat.age.int <= 0 => resp.kind = "InvalidAge"
        /\ (resp.cat.age.int > 0 /\ resp.cat.weight.int <= 0) => resp.kind = "InvalidWeight"

C9_Witness ==
    /\ resp.op = "create_cat" /\ resp.cat.breed \in valid_breeds
    /\ NumericArgs /\ resp.cat.age.int = 0 /\ resp.cat.weight.int > 0
    /\ resp.kind = "InvalidAge"
    /\ \A r \in cats : r.name # resp.name

\* C10: no two rows with deleted = FALSE have the same name; create_cat with
\* valid arguments and a name that a row with deleted = FALSE holds fails with
\* the "already exists" error and leaves the rows as they were.
C10_UniqueNames ==
    [][ /\ \A r1, r2 \in cats' :
              (r1.name = r2.name /\ ~r1.deleted /\ ~r2.deleted) => r1 = r2
        /\ ( /\ Returned("create_cat")
             /\ validate(resp'.cat.breed, resp'.cat.age, resp'.cat.weight) = "ok"
             /\ \E r \in cats : r.name = resp'.name /\ ~r.deleted ) =>
              (resp'.kind = "DuplicateName" /\ cats' = cats)
      ]_vars

C10_Witness ==
    /\ resp.op = "create_cat" /\ resp.kind = "DuplicateName"
    /\ \E r \in cats : r.name = resp.name /\ ~r.deleted
    /\ Cardinality(cats) = 2
\* C11: a create_cat that returns normally adds exactly one row, under an id
\* no row had, with the name, breed, age and weight given and deleted = FALSE,
\* and every row that existed is still there unchanged.
C11_CreateAddsOneRow ==
    [][ (Returned("create_cat") /\ resp'.kind = "ok") =>
            \E r \in cats' :
                /\ r \notin cats
                /\ cats' = cats \cup {r}
                /\ ~HasRow(cats, r.id)
                /\ Cat(r) = [resp'.cat EXCEPT !.id = r.id]
                /\ ~r.deleted
      ]_vars

C11_Witness ==
    /\ resp.op = "create_cat" /\ resp.kind = "ok"
    /\ \E r \in cats : r.name = resp.name /\ ~r.deleted
    /\ \E r \in cats : r.name # resp.name /\ r.deleted
\* ------------------------------------------- Credential Store properties
\* a Credential Store call of this name returned in this step
UStep(op) ==
    /\ uresp'.op = op
    /\ uresp' # uresp \/ users' # users \/ salts_drawn' # salts_drawn

UserExists(rows, username) == \E r \in rows : r.username = username

RowOf(rows, username) == CHOOSE r \in rows : r.username = username

C19_NoEmptyCredentialStored ==
    /\ \A r \in users :
          r.username # "" /\ r.password # sha256("" \o r.salt)
    /\ (uresp.op = "create_user" /\ (uresp.username = "" \/ uresp.password = "")) =>
          uresp.kind = "ValidationError"

RawStorageErrors == {"OperationalError", "IntegrityError"}

\* C21: no call of the Record Store or of the Credential Store fails with an
\* error type of the storage engine: a failure of the backing store reaches
\* the caller as a domain kind or as an unclassified persistence error.
C21_NoRawStorageError ==
    /\ resp.kind \notin RawStorageErrors
    /\ uresp.kind \notin RawStorageErrors

\* C26: create_cat with a valid breed and an age that is not a number fails
\* with the invalid age error; with a valid age and a weight that is not a
\* number it fails with the invalid weight error.
C26_NonNumericRejected ==
    (resp.op = "create_cat" /\ resp.cat.breed \in valid_breeds) =>
        /\ ~isinstance(resp.cat.age, "int") => resp.kind = "InvalidAge"
        /\ ( /\ isinstance(resp.cat.age, "int") /\ resp.cat.age.int > 0
             /\ ~isinstance(resp.cat.weight, "int") ) =>
              resp.kind = "InvalidWeight"

\* an age (weight) create_cat is to reject: not a number, or not positive
InvalidValue(v) == ~isinstance(v, "int") \/ v.int <= 0

\* C27: create_cat reports the first violation in the order breed, age,
\* weight: an invalid breed gives the invalid breed error whatever the age and
\* weight, a valid breed with an invalid age gives the invalid age error
\* whatever the weight.
C27_FirstViolationReported ==
    resp.op = "create_cat" =>
        /\ resp.cat.breed \notin valid_breeds => resp.kind = "InvalidBreed"
        /\ (resp.cat.breed \in valid_breeds /\ InvalidValue(resp.cat.age)) =>
              resp.kind = "InvalidAge"

\* C28: a delete_cat that returns normally changes only the deleted flag of
\* the row with its id: that row keeps id, name, breed, age and weight, every
\* other row is the same, and no row is added or removed.
C28_DeleteChangesOnlyFlag ==
    [][ \A p \in Procs :
            Returns(p) =>
                /\ Cardinality(cats') = Cardinality(cats)
                /\ {Cat(r) : r \in cats'} = {Cat(r) : r \in cats}
                /\ \A r \in cats :
                      IF r.id = cat_id[p]
                      THEN [r EXCEPT !.deleted = TRUE] \in cats'
                      ELSE r \in cats'
      ]_vars

C28_Witness ==
    /\ resp.op = "delete_cat" /\ resp.kind = "ok"
    /\ \E r \in cats : r.id = resp.id /\ r.deleted
    /\ \E r \in cats : r.id # resp.id /\ ~r.deleted
\* ----------------------------------------------------------------- routes
\* C22: the login route answers 401 whenever authentication fails, for a
\* username without a row and for a wrong password alike, and 200 exactly
\* when the password verifies; a failed authentication is never a 500.
C22_LoginStatus ==
    (uresp.op = "login" /\ uresp.kind # "400") =>
        /\ uresp.kind = "200" <=> <<uresp.username, uresp.password>> \in plain
        /\ <<uresp.username, uresp.password>> \notin plain => uresp.kind = "401"
        /\ uresp.kind # "500"

Verifying(rows, username) ==
    {p \in Passwords : verify(rows, username, p).ok}

C25_StoresIndependent ==
    [][ /\ cat_vars' # cat_vars => users' = users
        /\ user_vars' # user_vars => cats' = cats
        /\ (resp'.op = "clear_cats" /\ cat_vars' # cat_vars) =>
              cats' = {} /\ users' = users
      ]_vars

C25_Witness ==
    /\ resp.op = "clear_cats" /\ cats = {} /\ cleared # {}
    /\ users # {} /\ uresp.op = "update_password" /\ uresp.kind = "ok"

\* C29: reads and failed calls write nothing: after get_cat_by_id and
\* get_cat_by_name the rows of cats are the same, whatever the outcome, after
\* check_password and get_id_by_username the rows of users are the same, and
\* after a delete_cat that fails "not found" or "has been deleted" the rows of
\* cats are the same.
C29_ReadsWriteNothing ==
    [][ /\ resp'.op \in {"get_cat_by_id", "get_cat_by_name"} => cats' = cats
        /\ (resp'.op = "delete_cat" /\ resp'.kind \in {"NotFound", "AlreadyDeleted"}) =>
              cats' = cats
        /\ uresp'.op \in {"check_password", "get_id_by_username"} => users' = users
      ]_vars

C29_Witness ==
    /\ resp.op = "delete_cat" /\ resp.kind = "AlreadyDeleted"
    /\ uresp.op = "check_password" /\ uresp.kind = "ok" /\ uresp.ok
    /\ \E r \in cats : r.deleted
====
